---- MODULE Spec2Model ----
(***************************************************************************)
(* HTTP-RTT (src/rtt_checker.py): a Flask server with an in-memory        *)
(* per-client RTT store (class RTTChecker) and the routes /ping and       *)
(* /stats/<client_id>, and the browser page it serves, whose script       *)
(* measures the round trip of a periodic POST /ping.                      *)
(*                                                                         *)
(* Durations and clock readings are integers (milliseconds).  Exact       *)
(* quotients (mean, median, variance) are fractions [num, den] in lowest  *)
(* terms.                                                                  *)
(***************************************************************************)
EXTENDS Integers, Sequences, FiniteSets, TLC

\* ------------------------------------------------------------- bounds
\* setInterval calls made by one page (page load + interval changes)
MaxTimers == 2
\* requests one page sends
MaxRequests == 3
\* requests of one page that await their response at the same time
MaxInFlight == 2
\* last reading of the clock
MaxTime == 2
\* /ping requests sent by other HTTP clients than the page
MaxExternal == 3
\* RTTChecker method calls made by the request handler threads
MaxCalls == 3
\* requests sent in the scenario that fills the rolling window
MaxWindowRequests == 105
\* requests the network may lose in the fair scenario (the first ones)
MaxFailures == 2

\* the longest sample list of the median scenario
MaxSamples == 4

\* ---------------------------------------------------- program constants
\* rtts.length > 100 (the rolling window of the page)
WindowCap == 100
\* rtts.slice(-10), rtts[-10:], client_rtts[client_id][-10:]
RecentCount == 10

\* "%H:%M:%S" keeps the second of the day: milliseconds in a second, seconds
\* in a day
MsPerSecond == 1000
SecondsPerDay == 86400

\* testInterval = null
NoTimer == 0

\* client ids other HTTP clients may send; "" is the empty string
ClientIds == {"c1", "c2"}
\* Math.random().toString(36).substr(2, 9): at most 9 characters of the
\* fraction, none when Math.random() returns 0
PageClientIds == {"", "c1"}
\* the request handler threads of the server (app.run serves each request in
\* a thread of its own)
Threads == {"t1", "t2", "t3"}
\* the RTT values passed to store_client_rtt
Rtts == {10, 20}

VARIABLES
    \* ---- the page (one sampler instance)
    clientId,           \* let clientId
    testInterval,       \* let testInterval: the handle of the last setInterval
    timers,             \* the browser's active interval timers of this page
    nextTimerId,        \* the id the next setInterval returns
    loaded,             \* window.onload has fired
    rtts,               \* let rtts: the rolling window
    totalMeasurements,  \* let totalMeasurements
    statusText,         \* #status innerHTML
    statusColor,        \* #status style.color
    results,            \* #results innerHTML (the values it shows)
    inflight,           \* fetches awaiting their response
    sent,               \* number of fetches issued so far
    now,                \* the clock (performance.now(), time.time())
    \* ---- the server
    client_rtts,        \* rtt_checker.client_rtts: client id -> list object
    lists,              \* the list objects: reference -> sequence of samples
    lastPing,           \* the last response of POST /ping
    pings,              \* history: accepted pings per client id
    external,           \* number of requests of other HTTP clients so far
    th,                 \* the request handler threads: position and locals
    calls,              \* number of RTTChecker method calls started so far
    stored,             \* history: completed store_client_rtt calls,
                        \* per client id and RTT value
    \* ---- history of the page
    log                 \* every recorded sample, in recording order

pageVars == <<clientId, testInterval, timers, nextTimerId, loaded, rtts,
              totalMeasurements, statusText, statusColor, results, inflight,
              sent, now, log>>
serverVars == <<client_rtts, lists, lastPing, pings, external, th, calls,
                stored>>
vars == <<pageVars, serverVars>>

\* ------------------------------------------------------------ arithmetic
RECURSIVE Gcd(_, _)
Gcd(a, b) == IF b = 0 THEN a ELSE Gcd(b, a % b)

\* num / den, den > 0, in lowest terms
Frac(num, den) ==
    LET a == IF num < 0 THEN -num ELSE num
        g == Gcd(a, den)
    IN [num |-> num \div g, den |-> den \div g]

\* the elements of s
Range(s) == {s[i] : i \in 1..Len(s)}

\* the sum of the elements of s (halving keeps the evaluation shallow)
RECURSIVE Sum(_)
Sum(s) ==
    IF Len(s) = 0 THEN 0
    ELSE IF Len(s) = 1 THEN s[1]
    ELSE LET h == Len(s) \div 2
         IN Sum(SubSeq(s, 1, h)) + Sum(SubSeq(s, h + 1, Len(s)))

\* the sum of the squares of the elements of s
SumSq(s) == Sum([i \in 1..Len(s) |-> s[i] * s[i]])

\* Math.min(...rtts), min(rtts), of a non-empty s
MinOf(s) == CHOOSE x \in Range(s) : \A y \in Range(s) : x <= y

\* Math.max(...rtts), max(rtts), of a non-empty s
MaxOf(s) == CHOOSE x \in Range(s) : \A y \in Range(s) : x >= y

\* the k-th smallest element of s, 1 <= k <= Len(s)
KthSmallest(s, k) ==
    CHOOSE x \in Range(s) :
        /\ Cardinality({j \in 1..Len(s) : s[j] < x}) < k
        /\ k <= Cardinality({j \in 1..Len(s) : s[j] <= x})

\* [...rtts].sort((a, b) => a - b), sorted(data): s in ascending order
Sorted(s) == [k \in 1..Len(s) |-> KthSmallest(s, k)]

\* the last n elements of s (all of s when it is shorter): slice(-n), [-n:]
LastN(s, n) ==
    IF Len(s) <= n THEN s ELSE SubSeq(s, Len(s) - n + 1, Len(s))

Reverse(s) == [i \in 1..Len(s) |-> s[Len(s) + 1 - i]]

\* ------------------------------------------------------------- arrays
\* push changed to put the element first (unshift)
push_front(arr, x) == <<x>> \o arr

\* Array.prototype.push
push(arr, x) == Append(arr, x)

\* shift changed to drop the last element (pop)
shift_last(arr) == SubSeq(arr, 1, Len(arr) - 1)

\* Array.prototype.shift
shift(arr) == Tail(arr)

\* ------------------------------------------------------------- /ping
\* dict.get: the value under the key, or None; <<v>> is a value, <<>> is None
get(data, key) == IF key \in DOMAIN data THEN <<data[key]>> ELSE <<>>

\* Python truth of an optional string: None and "" are false
truthy(opt) == opt # <<>> /\ opt[1] # ""

\* ping changed to reject only a missing client id (client_id is None)
ping_acceptsEmpty(data) ==
    LET client_id == get(data, "client_id")
        client_timestamp == get(data, "timestamp")
        server_time == now
    IN IF client_id = <<>>
       THEN [status |-> 400, body |-> [error |-> "client id required"]]
       ELSE [status |-> 200,
             body |-> [status |-> "pong",
                       client_id |-> client_id[1],
                       server_timestamp |-> server_time,
                       client_timestamp |-> client_timestamp]]

\* ping changed to stamp the client timestamp with the server's clock
ping_restamps(data) ==
    LET client_id == get(data, "client_id")
        server_time == now
    IN IF ~truthy(client_id)
       THEN [status |-> 400, body |-> [error |-> "client id required"]]
       ELSE [status |-> 200,
             body |-> [status |-> "pong",
                       client_id |-> client_id[1],
                       server_timestamp |-> server_time,
                       client_timestamp |-> <<server_time>>]]

\* ping(): the response to POST /ping with JSON body data
ping(data) ==
    LET client_id == get(data, "client_id")
        client_timestamp == get(data, "timestamp")
        server_time == now
    IN IF ~truthy(client_id)
       THEN [status |-> 400, body |-> [error |-> "client id required"]]
       ELSE [status |-> 200,
             body |-> [status |-> "pong",
                       client_id |-> client_id[1],
                       server_timestamp |-> server_time,
                       client_timestamp |-> client_timestamp]]

\* the route /ping serves one request: what it leaves in the server
servePing(data) ==
    LET resp == ping(data)
    IN /\ lastPing' = [n |-> lastPing.n + 1, request |-> data, response |-> resp]
       /\ pings' = IF resp.status = 200
                   THEN [pings EXCEPT ![data.client_id] = @ + 1]
                   ELSE pings
       /\ UNCHANGED <<client_rtts, lists>>

\* ------------------------------------------------------------ the page
\* jsMedian changed to take the upper central value for an even count
jsMedian_upper(a) ==
    LET sorted == Sorted(a)
        n == Len(sorted)
    IN Frac(sorted[n \div 2 + 1], 1)

\* the median of updateRealTimeResults
jsMedian(a) ==
    LET sorted == Sorted(a)
        n == Len(sorted)
    IN IF n % 2 = 0
       THEN Frac(sorted[n \div 2] + sorted[n \div 2 + 1], 2)
       ELSE Frac(sorted[n \div 2 + 1], 1)

\* updateRealTimeResults changed to label the recent samples by their
\* position in the window instead of the lifetime count
updateRealTimeResults_windowLabels(w, total, old) ==
    IF Len(w) = 0 THEN old
    ELSE LET n == Len(w)
             recent == Reverse(LastN(w, RecentCount))
         IN [size |-> n,
             current |-> w[n],
             avg |-> Frac(Sum(w), n),
             median |-> jsMedian(w),
             variance |-> Frac(n * SumSq(w) - Sum(w) * Sum(w), n * n),
             min |-> MinOf(w),
             max |-> MaxOf(w),
             total |-> total,
             recent |-> [i \in 1..Len(recent) |->
                            [label |-> n - (i - 1), rtt |-> recent[i]]]]

\* updateRealTimeResults(): what #results shows for window w and lifetime
\* count total; old is what it showed before (kept when the window is empty).
\* The standard deviation shown is the square root of variance.
updateRealTimeResults(w, total, old) ==
    IF Len(w) = 0 THEN old
    ELSE LET n == Len(w)
             recent == Reverse(LastN(w, RecentCount))
         IN [size |-> n,
             current |-> w[n],
             avg |-> Frac(Sum(w), n),
             median |-> jsMedian(w),
             variance |-> Frac(n * SumSq(w) - Sum(w) * Sum(w), n * n),
             min |-> MinOf(w),
             max |-> MaxOf(w),
             total |-> total,
             recent |-> [i \in 1..Len(recent) |->
                            [label |-> total - (i - 1), rtt |-> recent[i]]]]

\* startContinuousRTT changed to install the new timer without clearing
startContinuousRTT_noClear ==
    /\ nextTimerId <= MaxTimers
    /\ timers' = timers \cup {nextTimerId}
    /\ testInterval' = nextTimerId
    /\ nextTimerId' = nextTimerId + 1

\* startContinuousRTT(): clear the timer testInterval names, install a new one.
\* The interval read from the input only sets the period; an active timer of
\* the model may fire at any time.
startContinuousRTT ==
    /\ nextTimerId <= MaxTimers
    /\ timers' = (IF testInterval # NoTimer
                  THEN timers \ {testInterval}
                  ELSE timers) \cup {nextTimerId}
    /\ testInterval' = nextTimerId
    /\ nextTimerId' = nextTimerId + 1

\* window.onload
OnLoad ==
    /\ ~loaded
    /\ loaded' = TRUE
    /\ startContinuousRTT
    /\ UNCHANGED <<clientId, rtts, totalMeasurements, statusText, statusColor,
                   results, inflight, sent, now, log>>
    /\ UNCHANGED serverVars

\* updateInterval(): the onchange handler of the interval input
updateInterval ==
    /\ startContinuousRTT
    /\ UNCHANGED <<clientId, loaded, rtts, totalMeasurements, statusText,
                   statusColor, results, inflight, sent, now, log>>
    /\ UNCHANGED serverVars

\* the interval callback up to its await: timer t fires, the fetch is issued
Tick(t) ==
    /\ t \in timers
    /\ Cardinality(inflight) < MaxInFlight
    /\ inflight' = inflight \cup
           {[id |-> sent + 1, startTime |-> now, timer |-> t]}
    /\ sent' = sent + 1
    /\ UNCHANGED <<clientId, testInterval, timers, nextTimerId, loaded, rtts,
                   totalMeasurements, statusText, statusColor, results, now,
                   log>>
    /\ UNCHANGED serverVars

\* Response changed to record the sample without testing response.ok
Response_ignoresOk(r) ==
    LET data == [client_id |-> clientId, timestamp |-> r.startTime]
        endTime == now
        rtt == endTime - r.startTime
        pushed == push(rtts, rtt)
        window == IF Len(pushed) > WindowCap THEN shift(pushed) ELSE pushed
    IN /\ r \in inflight
       /\ inflight' = inflight \ {r}
       /\ servePing(data)
       /\ rtts' = window
       /\ totalMeasurements' = totalMeasurements + 1
       /\ results' = updateRealTimeResults(window, totalMeasurements + 1,
                                           results)
       /\ statusText' = <<"measuring", totalMeasurements + 1, rtt>>
       /\ log' = Append(log, [id |-> r.id, rtt |-> rtt])
       /\ UNCHANGED statusColor
       /\ UNCHANGED <<clientId, testInterval, timers, nextTimerId, loaded,
                      sent, now, external, th, calls, stored>>

\* Response changed to drop the response of a request whose timer has been
\* cleared
Response_dropsCancelled(r) ==
    LET data == [client_id |-> clientId, timestamp |-> r.startTime]
        response == ping(data)
        endTime == now
        rtt == endTime - r.startTime
        pushed == push(rtts, rtt)
        window == IF Len(pushed) > WindowCap THEN shift(pushed) ELSE pushed
    IN /\ r \in inflight
       /\ inflight' = inflight \ {r}
       /\ servePing(data)
       /\ IF response.status \in 200..299 /\ r.timer \in timers
          THEN /\ rtts' = window
               /\ totalMeasurements' = totalMeasurements + 1
               /\ results' = updateRealTimeResults(window,
                                 totalMeasurements + 1, results)
               /\ statusText' = <<"measuring", totalMeasurements + 1, rtt>>
               /\ log' = Append(log, [id |-> r.id, rtt |-> rtt])
               /\ UNCHANGED statusColor
          ELSE UNCHANGED <<rtts, totalMeasurements, results, statusText,
                           statusColor, log>>
       /\ UNCHANGED <<clientId, testInterval, timers, nextTimerId, loaded,
                      sent, now, external, th, calls, stored>>

\* the interval callback after its await, the fetch fulfilled: the server has
\* served the request and the response has arrived
Response(r) ==
    LET data == [client_id |-> clientId, timestamp |-> r.startTime]
        response == ping(data)
        endTime == now
        rtt == endTime - r.startTime
        pushed == push(rtts, rtt)
        window == IF Len(pushed) > WindowCap THEN shift(pushed) ELSE pushed
    IN /\ r \in inflight
       /\ inflight' = inflight \ {r}
       /\ servePing(data)
       /\ IF response.status \in 200..299
          THEN /\ rtts' = window
               /\ totalMeasurements' = totalMeasurements + 1
               /\ results' = updateRealTimeResults(window,
                                 totalMeasurements + 1, results)
               /\ statusText' = <<"measuring", totalMeasurements + 1, rtt>>
               /\ log' = Append(log, [id |-> r.id, rtt |-> rtt])
               /\ UNCHANGED statusColor
          ELSE UNCHANGED <<rtts, totalMeasurements, results, statusText,
                           statusColor, log>>
       /\ UNCHANGED <<clientId, testInterval, timers, nextTimerId, loaded,
                      sent, now, external, th, calls, stored>>

\* NetworkError changed to clear the interval timer in the catch block
NetworkError_stopsTimer(r, reached) ==
    /\ r \in inflight
    /\ inflight' = inflight \ {r}
    /\ statusText' = <<"error">>
    /\ statusColor' = "red"
    /\ timers' = timers \ {testInterval}
    /\ IF reached
       THEN servePing([client_id |-> clientId, timestamp |-> r.startTime])
       ELSE UNCHANGED <<client_rtts, lists, lastPing, pings>>
    /\ UNCHANGED <<clientId, testInterval, nextTimerId, loaded, rtts,
                   totalMeasurements, results, sent, now, log, external, th,
                   calls, stored>>

\* the interval callback after its await, the fetch rejected (a network
\* error): the catch block.  reached: the server served the request before
\* the connection failed.
NetworkError(r, reached) ==
    /\ r \in inflight
    /\ inflight' = inflight \ {r}
    /\ statusText' = <<"error">>
    /\ statusColor' = "red"
    /\ IF reached
       THEN servePing([client_id |-> clientId, timestamp |-> r.startTime])
       ELSE UNCHANGED <<client_rtts, lists, lastPing, pings>>
    /\ UNCHANGED <<clientId, testInterval, timers, nextTimerId, loaded, rtts,
                   totalMeasurements, results, sent, now, log, external, th,
                   calls, stored>>

\* time passes
Advance ==
    /\ now' = now + 1
    /\ UNCHANGED <<clientId, testInterval, timers, nextTimerId, loaded, rtts,
                   totalMeasurements, statusText, statusColor, results,
                   inflight, sent, log>>
    /\ UNCHANGED serverVars

\* another HTTP client posts data to /ping
ExternalPing(data) ==
    /\ external < MaxExternal
    /\ external' = external + 1
    /\ servePing(data)
    /\ UNCHANGED <<th, calls, stored>>
    /\ UNCHANGED pageVars

\* the JSON bodies other HTTP clients post: with and without a client id,
\* with and without a timestamp
ExternalBodies ==
    {[client_id |-> c, timestamp |-> 0] : c \in ClientIds \cup {""}}
        \cup {[timestamp |-> 0]} \cup {[client_id |-> c] : c \in ClientIds}

\* ------------------------------------------------------- class RTTChecker
\* Each method is run by a thread in steps; a step reads or writes the
\* shared dictionary or one shared list once (the interpreter switches
\* threads between bytecodes; one dictionary or list operation is atomic).

\* client_id in self.client_rtts
has(client_id) == client_id \in DOMAIN client_rtts

\* datetime.strftime("%H:%M:%S") of a clock reading in milliseconds
strftime(ts) == (ts \div MsPerSecond) % SecondsPerDay

\* statistics.median
median(data) ==
    LET sorted == Sorted(data)
        n == Len(sorted)
        i == n \div 2
    IN IF n % 2 = 1
       THEN Frac(sorted[i + 1], 1)
       ELSE Frac(sorted[i] + sorted[i + 1], 2)

\* a thread between calls; result is what its last call returned
Idle(result) ==
    [pc |-> "idle", client_id |-> "", rtt |-> 0, ref |-> 0, idx |-> 0,
     rtts |-> <<>>, result |-> result]

NoResult == [kind |-> "none"]

\* NoData changed to a raised KeyError instead of the no-data payload
NoData_raises == [kind |-> "exception", error |-> "KeyError"]

\* {"error": ...}: the no-data payload of get_client_stats
NoData == [kind |-> "nodata", error |-> "no RTT data"]

\* min() of an empty list raises ValueError: the call fails
Raised == [kind |-> "exception", error |-> "ValueError"]

\* StatsOf changed to the statistics of the newest sample alone
StatsOf_lastOnly(client_id, r) ==
    [kind |-> "stats",
     client_id |-> client_id,
     count |-> 1,
     min |-> r[Len(r)],
     max |-> r[Len(r)],
     avg |-> Frac(r[Len(r)], 1),
     median |-> Frac(r[Len(r)], 1),
     recent_rtts |-> <<r[Len(r)]>>,
     timestamps |-> <<>>]

\* the dictionary get_client_stats returns, up to its timestamps
StatsOf(client_id, r) ==
    [kind |-> "stats",
     client_id |-> client_id,
     count |-> Len(r),
     min |-> MinOf(r),
     max |-> MaxOf(r),
     avg |-> Frac(Sum(r), Len(r)),
     median |-> median(r),
     recent_rtts |-> LastN(r, RecentCount),
     timestamps |-> <<>>]

\* thread t calls store_client_rtt(client_id, rtt)
CallStore(t, client_id, rtt) ==
    /\ th[t].pc = "idle"
    /\ calls < MaxCalls
    /\ calls' = calls + 1
    /\ th' = [th EXCEPT ![t] = [Idle(NoResult) EXCEPT
                  !.pc = "store_check", !.client_id = client_id, !.rtt = rtt]]
    /\ UNCHANGED <<client_rtts, lists, lastPing, pings, external, stored>>
    /\ UNCHANGED pageVars

\* thread t calls get_client_stats(client_id)
CallStats(t, client_id) ==
    /\ th[t].pc = "idle"
    /\ calls < MaxCalls
    /\ calls' = calls + 1
    /\ th' = [th EXCEPT ![t] = [Idle(NoResult) EXCEPT
                  !.pc = "stats_check", !.client_id = client_id]]
    /\ UNCHANGED <<client_rtts, lists, lastPing, pings, external, stored>>
    /\ UNCHANGED pageVars

\* store_client_rtt changed to give a new client the list of the first
\* client (one list object shared by all clients)
store_client_rtt_sharedList(t) ==
    LET me == th[t]
        cid == me.client_id
    IN /\ me.pc \in {"store_check", "store_create", "store_load",
                     "store_append"}
       /\ CASE me.pc = "store_check" ->
                 /\ th' = [th EXCEPT ![t].pc =
                              IF has(cid) THEN "store_load" ELSE "store_create"]
                 /\ UNCHANGED <<client_rtts, lists, stored>>
            [] me.pc = "store_create" ->
                 /\ lists' = IF lists = <<>> THEN <<<<>>>> ELSE lists
                 /\ client_rtts' = (cid :> 1) @@ client_rtts
                 /\ th' = [th EXCEPT ![t].pc = "store_load"]
                 /\ UNCHANGED stored
            [] me.pc = "store_load" ->
                 /\ th' = [th EXCEPT ![t].ref = client_rtts[cid],
                                     ![t].pc = "store_append"]
                 /\ UNCHANGED <<client_rtts, lists, stored>>
            [] me.pc = "store_append" ->
                 /\ lists' = [lists EXCEPT ![me.ref] =
                                 Append(@, [rtt |-> me.rtt, timestamp |-> now])]
                 /\ th' = [th EXCEPT ![t] = Idle([kind |-> "stored"])]
                 /\ stored' = [stored EXCEPT ![cid][me.rtt] = @ + 1]
                 /\ UNCHANGED client_rtts
       /\ UNCHANGED <<lastPing, pings, external, calls>>
       /\ UNCHANGED pageVars

\* one step of store_client_rtt in thread t
store_client_rtt(t) ==
    LET me == th[t]
        cid == me.client_id
    IN /\ me.pc \in {"store_check", "store_create", "store_load",
                     "store_append"}
       /\ CASE me.pc = "store_check" ->
                 \* if client_id not in self.client_rtts
                 /\ th' = [th EXCEPT ![t].pc =
                              IF has(cid) THEN "store_load" ELSE "store_create"]
                 /\ UNCHANGED <<client_rtts, lists, stored>>
            [] me.pc = "store_create" ->
                 \* self.client_rtts[client_id] = []
                 /\ lists' = Append(lists, <<>>)
                 /\ client_rtts' = (cid :> (Len(lists) + 1)) @@ client_rtts
                 /\ th' = [th EXCEPT ![t].pc = "store_load"]
                 /\ UNCHANGED stored
            [] me.pc = "store_load" ->
                 \* self.client_rtts[client_id]
                 /\ th' = [th EXCEPT ![t].ref = client_rtts[cid],
                                     ![t].pc = "store_append"]
                 /\ UNCHANGED <<client_rtts, lists, stored>>
            [] me.pc = "store_append" ->
                 \* .append({'rtt': rtt, 'timestamp': datetime.now()})
                 /\ lists' = [lists EXCEPT ![me.ref] =
                                 Append(@, [rtt |-> me.rtt, timestamp |-> now])]
                 /\ th' = [th EXCEPT ![t] = Idle([kind |-> "stored"])]
                 /\ stored' = [stored EXCEPT ![cid][me.rtt] = @ + 1]
                 /\ UNCHANGED client_rtts
       /\ UNCHANGED <<lastPing, pings, external, calls>>
       /\ UNCHANGED pageVars

\* one step of get_client_stats in thread t
get_client_stats(t) ==
    LET me == th[t]
        cid == me.client_id
    IN /\ me.pc \in {"stats_check", "stats_load0", "stats_empty", "stats_load",
                     "stats_iter", "stats_load2", "stats_slice"}
       /\ th' = [th EXCEPT ![t] =
            CASE me.pc = "stats_check" ->
                 \* if client_id not in self.client_rtts
                 IF has(cid) THEN [me EXCEPT !.pc = "stats_load0"]
                 ELSE Idle(NoData)
              [] me.pc = "stats_load0" ->
                 \* or not self.client_rtts[client_id]: the list is read
                 [me EXCEPT !.ref = client_rtts[cid], !.pc = "stats_empty"]
              [] me.pc = "stats_empty" ->
                 \* ... and tested for emptiness
                 IF lists[me.ref] = <<>> THEN Idle(NoData)
                 ELSE [me EXCEPT !.pc = "stats_load"]
              [] me.pc = "stats_load" ->
                 \* for data in self.client_rtts[client_id]: the list is read
                 [me EXCEPT !.ref = client_rtts[cid], !.idx = 0,
                            !.rtts = <<>>, !.pc = "stats_iter"]
              [] me.pc = "stats_iter" ->
                 \* the next element of the list, if it has one; after the
                 \* last, the statistics of rtts
                 IF me.idx < Len(lists[me.ref])
                 THEN [me EXCEPT !.idx = @ + 1,
                          !.rtts = Append(@, lists[me.ref][me.idx + 1].rtt)]
                 ELSE IF me.rtts = <<>> THEN Idle(Raised)
                 ELSE [me EXCEPT !.result = StatsOf(cid, me.rtts),
                                 !.pc = "stats_load2"]
              [] me.pc = "stats_load2" ->
                 \* self.client_rtts[client_id] ... the list is read
                 [me EXCEPT !.ref = client_rtts[cid], !.pc = "stats_slice"]
              [] me.pc = "stats_slice" ->
                 \* ... [-10:], and strftime of each timestamp of the slice
                 LET slice == LastN(lists[me.ref], RecentCount)
                 IN Idle([me.result EXCEPT !.timestamps =
                        [i \in 1..Len(slice) |-> strftime(slice[i].timestamp)]])]
       /\ UNCHANGED <<client_rtts, lists, lastPing, pings, external, calls,
                      stored>>
       /\ UNCHANGED pageVars

\* jsonify(...) returned alone by a view: the JSON body, answered 200
jsonify(payload) == [status |-> 200, body |-> payload]

\* the route /stats/<client_id>: the HTTP response to a request whose call of
\* rtt_checker.get_client_stats ended with result; an exception raised in
\* the view is answered 500
route_get_client_stats(result) ==
    IF result.kind = "exception"
    THEN [status |-> 500, body |-> <<>>]
    ELSE jsonify([k \in DOMAIN result \ {"kind"} |-> result[k]])

\* ---------------------------------------------------------------- Init
NoResults == [size |-> 0]

Init ==
    /\ clientId \in PageClientIds
    /\ testInterval = NoTimer
    /\ timers = {}
    /\ nextTimerId = 1
    /\ loaded = FALSE
    /\ rtts = <<>>
    /\ totalMeasurements = 0
    /\ statusText = <<"measuring">>
    /\ statusColor = "green"
    /\ results = NoResults
    /\ inflight = {}
    /\ sent = 0
    /\ now = 0
    /\ client_rtts = <<>>
    /\ lists = <<>>
    /\ lastPing = [n |-> 0]
    /\ pings = [c \in ClientIds |-> 0]
    /\ external = 0
    /\ th = [t \in Threads |-> Idle(NoResult)]
    /\ calls = 0
    /\ stored = [c \in ClientIds |-> [v \in Rtts |-> 0]]
    /\ log = <<>>

\* the program: one page and the server that answers it
Next ==
    \/ OnLoad
    \/ updateInterval
    \/ \E t \in timers : sent < MaxRequests /\ Tick(t)
    \/ \E r \in inflight : Response(r)
    \/ \E r \in inflight, reached \in BOOLEAN : NetworkError(r, reached)
    \/ now < MaxTime /\ Advance

Spec == Init /\ [][Next]_vars

\* the server alone: its routes, requested by any HTTP clients.  The route
\* /stats/<client_id> calls get_client_stats; no route calls store_client_rtt.
ServerNext ==
    \/ \E data \in ExternalBodies : ExternalPing(data)
    \/ \E t \in Threads, c \in ClientIds : CallStats(t, c)
    \/ \E t \in Threads : get_client_stats(t)

SpecServer == Init /\ [][ServerNext]_vars

\* the store alone: the methods of RTTChecker, called by concurrent threads
StoreNext ==
    \/ \E t \in Threads, c \in ClientIds, v \in Rtts : CallStore(t, c, v)
    \/ \E t \in Threads, c \in ClientIds : CallStats(t, c)
    \/ \E t \in Threads : store_client_rtt(t)
    \/ \E t \in Threads : get_client_stats(t)

SpecStore == Init /\ [][StoreNext]_vars

\* ------------------------------------------- the distinct-clients scenario
\* the program counters of a running store_client_rtt call
StorePcs == {"store_check", "store_create", "store_load", "store_append"}

\* Concurrent store_client_rtt calls of distinct client ids: a call for a
\* client id starts only when no call for the same id is running (each
\* client sends its samples one after the other).
ClientsNext ==
    \/ \E t \in Threads, c \in ClientIds, v \in Rtts :
          /\ \A u \in Threads :
                th[u].pc \in StorePcs => th[u].client_id # c
          /\ CallStore(t, c, v)
    \/ \E t \in Threads : store_client_rtt(t)

SpecClients == Init /\ [][ClientsNext]_vars

\* ------------------------------------------------- the window scenario
\* One page whose requests never overlap and all get their response, the
\* n-th after Delay(n) clock steps: long enough to fill the rolling window.
Delay(n) == (3 * n) % 7

WindowNext ==
    \/ OnLoad
    \/ \E t \in timers :
          inflight = {} /\ sent < MaxWindowRequests /\ Tick(t)
    \/ (\E r \in inflight : now - r.startTime < Delay(r.id)) /\ Advance
    \/ \E r \in inflight : now - r.startTime = Delay(r.id) /\ Response(r)

SpecWindow == Init /\ [][WindowNext]_vars

\* --------------------------------------------------- the fair scenario
\* The network loses at most the first MaxFailures requests.  An active
\* interval timer keeps firing, the load event fires, every fetch settles.
\* The clock stands still: the RTT values play no part here.
Settle(r) ==
    \/ Response(r)
    \/ \E reached \in BOOLEAN : r.id <= MaxFailures /\ NetworkError(r, reached)

LiveTick == \E t \in timers : sent < MaxRequests /\ Tick(t)

LiveSettle == \E r \in inflight : Settle(r)

LiveNext ==
    \/ OnLoad
    \/ updateInterval
    \/ LiveTick
    \/ LiveSettle

SpecLive ==
    /\ Init
    /\ [][LiveNext]_vars
    /\ WF_vars(OnLoad)
    /\ WF_vars(LiveTick)
    /\ WF_vars(LiveSettle)

\* ------------------------------------------------- the median scenario
\* The two medians applied to the same samples: the window of the page and
\* the history of client "c1" hold the same RTT values, any values of
\* MedianRtts in any order.
MedianRtts == {10, 20, 30, 40}

Samples == UNION {[1..n -> MedianRtts] : n \in 1..MaxSamples}

MedianInit ==
    \E w \in Samples :
        /\ clientId \in PageClientIds
        /\ testInterval = NoTimer
        /\ timers = {}
        /\ nextTimerId = 1
        /\ loaded = FALSE
        /\ rtts = w
        /\ totalMeasurements = Len(w)
        /\ statusText = <<"measuring">>
        /\ statusColor = "green"
        /\ results = NoResults
        /\ inflight = {}
        /\ sent = 0
        /\ now = 0
        /\ client_rtts = ("c1" :> 1)
        /\ lists = <<[i \in 1..Len(w) |-> [rtt |-> w[i], timestamp |-> 0]]>>
        /\ lastPing = [n |-> 0]
        /\ pings = [c \in ClientIds |-> 0]
        /\ external = 0
        /\ th = [t \in Threads |-> Idle(NoResult)]
        /\ calls = 0
        /\ stored = [c \in ClientIds |-> [v \in Rtts |-> 0]]
        /\ log = <<>>

\* the page calls updateRealTimeResults() on its window
Render ==
    /\ results' = updateRealTimeResults(rtts, totalMeasurements, results)
    /\ results' # results
    /\ UNCHANGED <<clientId, testInterval, timers, nextTimerId, loaded, rtts,
                   totalMeasurements, statusText, statusColor, inflight, sent,
                   now, log>>
    /\ UNCHANGED serverVars

MedianNext ==
    \/ Render
    \/ CallStats("t1", "c1")
    \/ get_client_stats("t1")

SpecMedian == MedianInit /\ [][MedianNext]_vars

\* ================================================================ claims
\* the RTT values of the recorded samples, in recording order
RttsOf(l) == [i \in 1..Len(l) |-> l[i].rtt]

\* a step that completes a tick without recording a sample: a failed tick
FailedTick ==
    /\ Cardinality(inflight') < Cardinality(inflight)
    /\ totalMeasurements' = totalMeasurements

\* C4: in every reachable state at most one interval timer of the page is
\* active, and it is the one testInterval names.
C4_OneTimer ==
    /\ Cardinality(timers) <= 1
    /\ timers = IF testInterval = NoTimer THEN {} ELSE {testInterval}

\* C4 witness: the timer of the page load has been replaced by a restart
C4_Witness == loaded /\ nextTimerId > 2 /\ Cardinality(timers) = 1

\* C5: the window is the last min(k, 100) recorded samples in recording
\* order, the lifetime count is the number k of recorded samples, the window
\* never holds more than 100 samples, the lifetime count never decreases.
C5_Window ==
    /\ [](/\ rtts = LastN(RttsOf(log), WindowCap)
          /\ totalMeasurements = Len(log)
          /\ Len(rtts) <= WindowCap)
    /\ [][totalMeasurements' >= totalMeasurements]_vars

\* C5 witness: more samples recorded than the window holds, the window full
C5_Witness ==
    /\ totalMeasurements = WindowCap + 5
    /\ Len(rtts) = WindowCap
    /\ rtts # SubSeq(RttsOf(log), 1, WindowCap)

\* C6: a failed tick (network error or non-success response) leaves the
\* rolling window and the lifetime count unchanged.
C6_FailedTickNoSample ==
    [][(\E r \in inflight :
           \/ \E reached \in BOOLEAN : NetworkError(r, reached)
           \/ ping([client_id |-> clientId, timestamp |-> r.startTime]).status
                  \notin 200..299 /\ inflight' = inflight \ {r})
       => UNCHANGED <<rtts, totalMeasurements>>]_vars

\* C6 witness: after a recorded sample, a network error has been handled
C6_Witness ==
    /\ statusText = <<"error">>
    /\ totalMeasurements = 1
    /\ Len(rtts) = 1
    /\ sent = 2
    /\ inflight = {}

\* C7 as claimed: every failed tick, network error or non-success response,
\* leaves the status showing the error indicator.
C7_FailedTickShowsError ==
    [][FailedTick => statusText' = <<"error">> /\ statusColor' = "red"]_vars

\* C8: a failed tick leaves the interval timer active, and when the status
\* shows an error and requests are still to come, a later response is
\* recorded as a sample (the status then shows that sample).
C8_TimerSurvives ==
    /\ [][FailedTick => timers' = timers /\ timers # {}]_vars
    /\ (clientId # "" /\ statusText = <<"error">> /\ sent < MaxRequests)
           ~> (statusText[1] = "measuring" /\ totalMeasurements >= 1)

\* C8 witness: a sample recorded after MaxFailures failed requests
C8_Witness ==
    /\ totalMeasurements = 1
    /\ sent = MaxFailures + 1
    /\ Len(log) = 1
    /\ log[1].id = MaxFailures + 1
    /\ statusColor = "red"

\* C9: the recorded samples are in the order of their responses' arrival:
\* each successful response appends exactly one sample at the end of the
\* window, whatever the order of sending.
C9_ArrivalOrder ==
    /\ [](rtts = LastN(RttsOf(log), WindowCap))
    /\ [][\A r \in inflight :
            (inflight' = inflight \ {r} /\ totalMeasurements' # totalMeasurements)
            => /\ Len(log') = Len(log) + 1
               /\ rtts' = LastN(rtts \o <<now - r.startTime>>, WindowCap)
               /\ log'[Len(log')].id = r.id]_vars

\* C9 witness: two overlapping requests recorded against their sending order
C9_Witness ==
    /\ Len(log) = 2
    /\ log[1].id = 2
    /\ log[2].id = 1
    /\ rtts = <<log[1].rtt, log[2].rtt>>
    /\ rtts[1] # rtts[2]

\* the number of samples with RTT value v in the history of client c
Count(c, v) ==
    IF has(c)
    THEN Cardinality({i \in 1..Len(lists[client_rtts[c]]) :
                         lists[client_rtts[c]][i].rtt = v})
    ELSE 0

\* no method call is running
Quiet == \A t \in Threads : th[t].pc = "idle"

\* C1 as claimed: after N >= 1 accepted pings of a client id that client has
\* a history of N samples (the count get_client_stats reports for it).
C1_PingRecorded ==
    \A c \in ClientIds :
        pings[c] >= 1 =>
            /\ has(c)
            /\ Len(lists[client_rtts[c]]) = pings[c]

\* C2 as claimed: once all store_client_rtt calls have completed, the history
\* of each client holds exactly the samples of the completed calls for it.
C2_NoSampleLost ==
    Quiet => \A c \in ClientIds, v \in Rtts : Count(c, v) = stored[c][v]

\* C3 as claimed: a get_client_stats call never raises; it returns the
\* no-data payload or a snapshot with count >= 1.
C3_StatsNeverFails ==
    \A t \in Threads :
        /\ th[t].result.kind # "exception"
        /\ th[t].result.kind = "stats" => th[t].result.count >= 1

\* C10: a /ping request whose client id is absent or empty is answered 400
\* with an error message; it creates and changes no history, and is not
\* counted as accepted.
C10_InvalidRequest ==
    [][(/\ lastPing'.n # lastPing.n
        /\ ~truthy(get(lastPing'.request, "client_id")))
       => /\ lastPing'.response.status = 400
          /\ DOMAIN lastPing'.response.body = {"error"}
          /\ UNCHANGED <<client_rtts, lists, pings>>]_vars

\* C10 witness: requests with an empty and with an absent client id have
\* been answered, the last one 400
C10_Witness ==
    /\ lastPing.n >= 2
    /\ "client_id" \notin DOMAIN lastPing.request
    /\ lastPing.response.status = 400
    /\ \A c \in ClientIds : pings[c] = 0

\* the program counters of a running get_client_stats call
StatsPcs ==
    {"stats_check", "stats_load0", "stats_empty", "stats_load", "stats_iter",
     "stats_load2", "stats_slice"}

\* C11: a get_client_stats call for a client id that is not in the store
\* returns the no-data payload, which the route answers 200 with an
\* error-shaped body, never an exception; and no step of a get_client_stats
\* call changes the store (no history is created).
C11_UnknownClientNoData ==
    [][\A t \in Threads :
          (th[t].pc \in StatsPcs /\ th'[t] # th[t])
          => /\ UNCHANGED <<client_rtts, lists>>
             /\ (th'[t].pc = "idle" /\ ~has(th[t].client_id))
                => /\ th'[t].result.kind = "nodata"
                   /\ route_get_client_stats(th'[t].result).status = 200
                   /\ DOMAIN route_get_client_stats(th'[t].result).body
                          = {"error"}]_vars

\* C11 witness: a call has returned the no-data payload while one client has
\* a history with a sample and the other client still has none
C11_Witness ==
    /\ \E t \in Threads : th[t].result.kind = "nodata"
    /\ \E c \in ClientIds : has(c) /\ Len(lists[client_rtts[c]]) >= 1
    /\ \E c \in ClientIds : ~has(c)

\* C12: when get_client_stats computes its snapshot from the list that is the
\* client's history, the count is the length of the history, min and max
\* are recorded RTTs bounding every recorded RTT, and the mean is the sum of
\* the recorded RTTs divided by the count.
C12_SnapshotStatistics ==
    [][\A t \in Threads :
          (/\ th[t].pc = "stats_iter"
           /\ th'[t].pc = "stats_load2"
           /\ th[t].ref = client_rtts[th[t].client_id])
          => LET h == RttsOf(lists[client_rtts[th[t].client_id]])
                 s == th'[t].result
             IN /\ Len(h) >= 1
                /\ s.count = Len(h)
                /\ \A i \in 1..Len(h) : s.min <= h[i] /\ h[i] <= s.max
                /\ s.min \in Range(h)
                /\ s.max \in Range(h)
                /\ s.avg.num * s.count = Sum(h) * s.avg.den]_vars

\* C12 witness: a snapshot of a history of two samples with different RTTs
\* has been returned
C12_Witness ==
    \E t \in Threads, c \in ClientIds :
        /\ th[t].pc = "idle"
        /\ th[t].result.kind = "stats"
        /\ th[t].result.client_id = c
        /\ th[t].result.count = 2
        /\ th[t].result.min < th[t].result.max
        /\ Len(lists[client_rtts[c]]) = 2

\* v is the k-th value of s in ascending order
IsKth(s, k, v) ==
    /\ Cardinality({j \in 1..Len(s) : s[j] < v}) < k
    /\ k <= Cardinality({j \in 1..Len(s) : s[j] <= v})

\* m is the median of s by the order-statistic rule: the central value for
\* an odd count, the average of the two central values for an even count
IsMedian(s, m) ==
    LET n == Len(s)
    IN IF n % 2 = 1
       THEN \E v \in Range(s) :
               IsKth(s, (n + 1) \div 2, v) /\ m.num = v * m.den
       ELSE \E lo, hi \in Range(s) :
               /\ IsKth(s, n \div 2, lo)
               /\ IsKth(s, n \div 2 + 1, hi)
               /\ 2 * m.num = (lo + hi) * m.den

\* C13: on the same samples the median shown by the page and the median of
\* get_client_stats are both the order-statistic median, hence equal and
\* independent of the recording order; 10, 20, 30 in any order give 20 and
\* 10, 20, 30, 40 in any order give 25.
C13_SameMedian ==
    LET h == RttsOf(lists[client_rtts["c1"]])
        shown == results # NoResults
        got == th["t1"].pc = "idle" /\ th["t1"].result.kind = "stats"
    IN /\ shown => IsMedian(rtts, results.median)
       /\ got => IsMedian(h, th["t1"].result.median)
       /\ (shown /\ got) => results.median = th["t1"].result.median
       /\ (shown /\ Len(rtts) = 3 /\ Range(rtts) = {10, 20, 30})
             => results.median = [num |-> 20, den |-> 1]
       /\ (got /\ Len(h) = 3 /\ Range(h) = {10, 20, 30})
             => th["t1"].result.median = [num |-> 20, den |-> 1]
       /\ (shown /\ Len(rtts) = 4 /\ Range(rtts) = {10, 20, 30, 40})
             => results.median = [num |-> 25, den |-> 1]
       /\ (got /\ Len(h) = 4 /\ Range(h) = {10, 20, 30, 40})
             => th["t1"].result.median = [num |-> 25, den |-> 1]

\* C13 witness: both medians computed on four unsorted samples 10, 20, 30, 40
C13_Witness ==
    /\ results # NoResults
    /\ th["t1"].pc = "idle"
    /\ th["t1"].result.kind = "stats"
    /\ rtts = <<40, 10, 30, 20>>
    /\ results.median = [num |-> 25, den |-> 1]
    /\ th["t1"].result.median = [num |-> 25, den |-> 1]

\* the history of client c: the list the store holds for it
History(c) == lists[client_rtts[c]]

\* C14: with concurrent appends of distinct client ids, once the calls have
\* completed the store holds one history per client id that stored a
\* sample, no two ids share a list, and each history holds exactly the
\* samples stored for its id; and no step of an append for one client id
\* changes the history of another.
C14_ClientsIndependent ==
    /\ [](Quiet =>
            /\ \A c \in ClientIds :
                  /\ has(c) <=> \E v \in Rtts : stored[c][v] >= 1
                  /\ \A v \in Rtts : Count(c, v) = stored[c][v]
            /\ \A c, d \in DOMAIN client_rtts :
                  c # d => client_rtts[c] # client_rtts[d])
    /\ [][\A t \in Threads, d \in ClientIds :
            (/\ th[t].pc \in StorePcs
             /\ th'[t] # th[t]
             /\ d # th[t].client_id
             /\ has(d))
            => /\ d \in DOMAIN client_rtts'
               /\ lists'[client_rtts'[d]] = History(d)]_vars

\* C14 witness: two calls for different client ids run at the same time,
\* the other client already has a history with a sample of another value
C14_Witness ==
    /\ th["t1"].pc = "store_append"
    /\ th["t2"].pc = "store_append"
    /\ th["t1"].client_id # th["t2"].client_id
    /\ th["t1"].rtt # th["t2"].rtt
    /\ Len(History(th["t1"].client_id)) = 1
    /\ Len(History(th["t2"].client_id)) = 0

\* s is a prefix of l
IsPrefix(s, l) == Len(s) <= Len(l) /\ SubSeq(l, 1, Len(s)) = s

\* C15 as claimed: in every step, each client that has a history keeps one,
\* and its history after the step has its history before the step as a
\* prefix.
C15_AppendOnly ==
    [][\A c \in DOMAIN client_rtts :
          /\ c \in DOMAIN client_rtts'
          /\ IsPrefix(History(c), lists'[client_rtts'[c]])]_vars

\* C16: every /ping request with a non-empty client id is answered 200 with
\* status "pong", the client id and the client timestamp of the request
\* unchanged, and the server's clock reading at the time it is served.
C16_PingAck ==
    [][(/\ lastPing'.n # lastPing.n
        /\ truthy(get(lastPing'.request, "client_id")))
       => LET req == lastPing'.request
              resp == lastPing'.response
          IN /\ resp.status = 200
             /\ resp.body.status = "pong"
             /\ resp.body.client_id = req.client_id
             /\ resp.body.client_timestamp = get(req, "timestamp")
             /\ resp.body.server_timestamp = now]_vars

\* C16 witness: a ping of the page answered with a server timestamp later
\* than the client timestamp it carries
C16_Witness ==
    /\ lastPing.n >= 1
    /\ lastPing.response.status = 200
    /\ lastPing.response.body.client_id = "c1"
    /\ lastPing.response.body.client_timestamp = <<0>>
    /\ lastPing.response.body.server_timestamp = MaxTime

C18_RecentAligned ==
    [][\A t \in Threads :
          (th[t].pc = "stats_slice" /\ th'[t].pc = "idle")
          => LET s == th'[t].result
                 h == lists[th[t].ref]
                 covered == SubSeq(h, 1, s.count)
                 recent == LastN(covered, RecentCount)
             IN /\ s.count <= Len(h)
                /\ s.recent_rtts = RttsOf(recent)
                /\ Len(s.timestamps) = Len(s.recent_rtts)
                /\ s.timestamps =
                      [i \in 1..Len(recent) |-> strftime(recent[i].timestamp)]]_vars

\* C19: a start of the sampler (a step that changes testInterval) changes
\* only the timer: the window, the lifetime count, the client id and the
\* requests in flight stay as they are; and the response to a request in
\* flight whose timer has been cleared is recorded as a sample when it
\* arrives, as any other.
C19_RestartKeepsData ==
    /\ [][testInterval' # testInterval
             => UNCHANGED <<rtts, totalMeasurements, clientId, inflight,
                            results, log>>]_vars
    /\ [][\A r \in inflight :
            (r.timer \notin timers /\ clientId # "" /\ Response(r))
            => /\ totalMeasurements' = totalMeasurements + 1
               /\ rtts' = LastN(rtts \o <<now - r.startTime>>, WindowCap)
               /\ log'[Len(log')].id = r.id]_vars

\* C19 witness: after a recorded sample the sampler has been restarted while
\* a request of the cleared timer is in flight; window and count are intact
C19_Witness ==
    /\ clientId # ""
    /\ testInterval = 2
    /\ timers = {2}
    /\ \E r \in inflight : r.timer = 1
    /\ totalMeasurements = 1
    /\ Len(rtts) = 1
    /\ rtts[1] = log[1].rtt

\* C20 as claimed: when a tick completes by recording a sample, the status
\* is back in the measuring state, its text and its colour, whatever
\* earlier ticks did to it.
C20_StatusHeals ==
    [][totalMeasurements' = totalMeasurements + 1
          => /\ statusText' = <<"measuring", totalMeasurements',
                                rtts'[Len(rtts')]>>
             /\ statusColor' = "green"]_vars

====
